---- MODULE Spec2Model ----
(***************************************************************************)
(* Expression compiler of dmasm: compile_expr (src/src/compiler.rs),      *)
(* term::emit (src/src/compiler/term.rs) and follow::emit                 *)
(* (src/src/compiler/follow.rs).                                           *)
(*                                                                         *)
(* The recursive descent of the compiler is unfolded into a machine with  *)
(* an explicit continuation stack `work`: every action is one code        *)
(* segment between two recursive calls.  The parsed expression tree is    *)
(* the input and is fixed by Init.                                         *)
(*                                                                         *)
(* Encoding.  Every value is a tuple whose first element is its tag.      *)
(*   Expression  <<"Base", term, follows>>   (no unary operators)          *)
(*               <<"BinaryOp", op, lhs, rhs>>  <<"AssignOp", op, lhs, rhs>>*)
(*   Term        <<"Null">> <<"Int", i>> <<"Ident", name>> <<"Expr", e>>   *)
(*               <<"DynamicCall", lhs, rhs, shape>>                        *)
(*               <<"Locate", args, in_list>>  <<"Pick", args>>             *)
(*               <<"SelfCall">>                                            *)
(*   Follow      <<"FollowField", kind, ident>> <<"FollowIndex", e>>       *)
(*               <<"FollowCall", kind, ident, args>>                       *)
(*   EvalKind    <<"Stack">> <<"ListRef">> <<"Range">> <<"Global">>        *)
(*               <<"Var", v>> <<"Field", builder, name>>                   *)
(*               <<"SafeField", builder, name>>                            *)
(*   Variable    <<"Arg", i>> <<"Dot">> <<"Usr">> <<"Src">> <<"Args">>     *)
(*               <<"World">> <<"GlobalVar", name>> <<"Cache">>             *)
(*               <<"VarField", name>> <<"DynamicProc", name>>              *)
(*               <<"Chain", base, hops>>                                   *)
(*   Node        an instruction tuple, or <<"Label", n>>                   *)
(* A label is the value of label_count it was formatted from               *)
(* (format!("LAB_{:0>4X}", n) is injective).                               *)
(* An Option is <<>> (None) or <<x>> (Some(x)).                            *)
(***************************************************************************)
EXTENDS Integers, Sequences, FiniteSets, TLC

VARIABLES
    params,                \* compile_expr's declared parameter names
    expr,                  \* the parsed expression
    nodes,                 \* Compiler.nodes
    label_count,           \* Compiler.label_count
    short_circuit_labels,  \* Compiler.short_circuit_labels: <<label, used>>
    kind,                  \* the EvalKind handed from one step to the next
    work,                  \* continuation stack, next segment first
    status,                \* "running", "ok" (Ok(nodes)) or "err"
    error,                 \* the CompileError when status = "err"
    vpc,                   \* VM: index of the next node to execute, 0 = idle
    vcache,                \* VM: the scratch slot
    vsave,                 \* VM: the save stack of PushCache / PopCache
    vtrace                 \* VM: indices of the nodes executed so far

vars == <<params, expr, nodes, label_count, short_circuit_labels, kind, work,
          status, error, vpc, vcache, vsave, vtrace>>

cvars == <<params, expr, nodes, label_count, short_circuit_labels, kind, work,
           status, error>>

vmvars == <<vpc, vcache, vsave, vtrace>>

-----------------------------------------------------------------------------
(* Bounds of the input space *)

\* longest declared-parameter list
MaxParams == 2

\* most field names a ChainBuilder handed to a materialization holds
MaxHops == 2

\* longest follow chain after a base identifier
MaxFollow == 2

\* deepest nesting of method calls inside method-call arguments
MaxNest == 2

\* most branches of a pick
MaxPick == 3

-----------------------------------------------------------------------------
(* Small helpers *)

None == <<>>

Some(x) == <<x>>

NoError == <<"NoError">>

Stack == <<"Stack">>

Cache == <<"Cache">>

RECURSIVE Concat(_)
Concat(ss) == IF ss = <<>> THEN <<>> ELSE Head(ss) \o Concat(Tail(ss))

\* mutant: the first match instead of the last
Position(s, x) ==
    LET I == {i \in 1..Len(s) : s[i] = x}
    IN IF I = {} THEN 0 ELSE CHOOSE i \in I : \A j \in I : i <= j

\* index of the last element of s equal to x, 0 when there is none
RPosition(s, x) ==
    LET I == {i \in 1..Len(s) : s[i] = x}
    IN IF I = {} THEN 0 ELSE CHOOSE i \in I : \A j \in I : j <= i

-----------------------------------------------------------------------------
(* ChainBuilder: a base operand plus the pending field names *)

ChainBegin(base) == <<"ChainBuilder", base, <<>>>>

ChainAppend(builder, field) ==
    <<"ChainBuilder", builder[2], Append(builder[3], field)>>

\* the operand of the chain built so far
ChainGet(builder) ==
    IF builder[3] = <<>> THEN builder[2]
    ELSE <<"Chain", builder[2], builder[3]>>

\* the operand of `field` read off the chain built so far
ChainGetField(builder, field) ==
    <<"Chain", builder[2], Append(builder[3], field)>>

-----------------------------------------------------------------------------
(* The Compiler as a value: [nodes, label_count, err, ret].  `err` is the  *)
(* CompileError of a failed step (every later step is then skipped, as `?` *)
(* does) and `ret` the value the last step returned.                       *)

EmitIns(c, ins) ==
    IF c.err # NoError THEN c ELSE [c EXCEPT !.nodes = Append(@, ins)]

EmitLabel(c, label) ==
    IF c.err # NoError THEN c
    ELSE [c EXCEPT !.nodes = Append(@, <<"Label", label>>)]

Fail(c, e) == IF c.err # NoError THEN c ELSE [c EXCEPT !.err = e]

Return(c, v) == IF c.err # NoError THEN c ELSE [c EXCEPT !.ret = v]

\* mutant: the counter is read but not incremented
AllocLabelStuck(c) == c

\* let label = format!("LAB_{:0>4X}", label_count); label_count += 1;
\* the label allocated is the old c.label_count
AllocLabel(c) ==
    IF c.err # NoError THEN c ELSE [c EXCEPT !.label_count = @ + 1]

EmitFindVar(ps, ident) ==
    LET index == RPosition(ps, ident)
    IN  IF index # 0 THEN <<"Var", <<"Arg", index - 1>>>>
        ELSE CASE ident = "."      -> <<"Var", <<"Dot">>>>
               [] ident = "usr"    -> <<"Var", <<"Usr">>>>
               [] ident = "src"    -> <<"Var", <<"Src">>>>
               [] ident = "args"   -> <<"Var", <<"Args">>>>
               [] ident = "world"  -> <<"Var", <<"World">>>>
               [] ident = "global" -> <<"Global">>
               [] OTHER            -> <<"Var", <<"GlobalVar", ident>>>>

\* the SafeField arm of emit_move_to_stack: finalize the chain, then read
MoveSafeFieldToStack(c, k) ==
    EmitIns(c, <<"GetVar", ChainGetField(k[2], k[3])>>)

EmitMoveToStack(c, k) ==
    IF c.err # NoError THEN c
    ELSE CASE k[1] = "Stack"     -> Return(c, Stack)
           [] k[1] = "ListRef"   -> Return(EmitIns(c, <<"ListGet">>), Stack)
           [] k[1] = "Range"     -> Fail(c, <<"UnexpectedRange">>)
           [] k[1] = "Global"    -> Fail(c, <<"UnexpectedGlobal">>)
           [] k[1] = "Var"       ->
                Return(EmitIns(c, <<"GetVar", k[2]>>), Stack)
           [] k[1] = "Field"     ->
                Return(EmitIns(c, <<"GetVar", ChainGetField(k[2], k[3])>>),
                       Stack)
           [] k[1] = "SafeField" -> Return(MoveSafeFieldToStack(c, k), Stack)

\* mutant: a list entry is moved to the scratch slot without being read
MoveToChainBuilderNoListGet(c, k) ==
    IF c.err # NoError THEN c
    ELSE CASE k[1] \in {"Stack", "ListRef"} ->
                Return(EmitIns(c, <<"SetVar", Cache>>), ChainBegin(Cache))
           [] k[1] = "Range"   -> Fail(c, <<"UnexpectedRange">>)
           [] k[1] = "Global"  -> Fail(c, <<"UnexpectedGlobal">>)
           [] k[1] = "Field"   -> Return(c, ChainAppend(k[2], k[3]))
           [] k[1] = "Var"     -> Return(c, ChainBegin(k[2]))

\* returns the ChainBuilder in ret
EmitMoveToChainBuilder(c, k) ==
    IF c.err # NoError THEN c
    ELSE CASE k[1] = "Stack"   ->
                Return(EmitIns(c, <<"SetVar", Cache>>), ChainBegin(Cache))
           [] k[1] = "ListRef" ->
                Return(EmitIns(EmitIns(c, <<"ListGet">>), <<"SetVar", Cache>>),
                       ChainBegin(Cache))
           [] k[1] = "Range"   -> Fail(c, <<"UnexpectedRange">>)
           [] k[1] = "Global"  -> Fail(c, <<"UnexpectedGlobal">>)
           [] k[1] = "Field"   -> Return(c, ChainAppend(k[2], k[3]))
           [] k[1] = "Var"     -> Return(c, ChainBegin(k[2]))

RECURSIVE AppendAll(_, _)
AppendAll(builder, fields) ==
    IF fields = <<>> THEN builder
    ELSE AppendAll(ChainAppend(builder, Head(fields)), Tail(fields))

\* mutant: the names before the last are dropped
CommitTailLastOnly(c, builder, field_chain) ==
    Return(c, <<"Field", builder, field_chain[Len(field_chain)]>>)

\* follow.rs 205-214: the last name stays pending, the others are appended
CommitTail(c, builder, field_chain) ==
    LET last == field_chain[Len(field_chain)]
        rest == SubSeq(field_chain, 1, Len(field_chain) - 1)
    IN  Return(c, <<"Field", AppendAll(builder, rest), last>>)

\* follow.rs 188-200: the guard of a pending safe field
CommitSafeField(c, k) ==
    LET label == c.label_count
        c1 == AllocLabel(c)
        c2 == EmitIns(c1, <<"GetVar", ChainGet(k[2])>>)
        c3 == EmitIns(c2, <<"SetCacheJmpIfNull", label>>)
        c4 == EmitIns(c3, <<"GetVar", <<"VarField", k[3]>>>>)
        c5 == EmitLabel(c4, label)
    IN  EmitIns(c5, <<"SetVar", Cache>>)

\* returns the EvalKind in ret; the buffer is empty afterwards
RECURSIVE CommitFieldBuffer(_, _, _)
CommitFieldBuffer(c, k, field_chain) ==
    IF c.err # NoError THEN c
    ELSE IF field_chain = <<>> THEN Return(c, k)
    ELSE CASE k[1] = "Stack"     ->
                CommitTail(EmitIns(c, <<"SetVar", Cache>>),
                           ChainBegin(Cache), field_chain)
           [] k[1] = "ListRef"   ->
                CommitTail(EmitIns(EmitIns(c, <<"ListGet">>),
                                   <<"SetVar", Cache>>),
                           ChainBegin(Cache), field_chain)
           [] k[1] = "Range"     -> Fail(c, <<"UnexpectedRange">>)
           [] k[1] = "Global"    ->
                CommitFieldBuffer(
                    c, <<"Var", <<"GlobalVar", Head(field_chain)>>>>,
                    Tail(field_chain))
           [] k[1] = "Field"     ->
                CommitTail(c, ChainAppend(k[2], k[3]), field_chain)
           [] k[1] = "SafeField" ->
                CommitTail(CommitSafeField(c, k), ChainBegin(Cache),
                           field_chain)
           [] k[1] = "Var"       ->
                CommitTail(c, ChainBegin(k[2]), field_chain)

-----------------------------------------------------------------------------
(* The inputs: parameter lists and parsed expressions *)

\* sequences over S of length at most n
SeqsUpTo(S, n) == UNION {[1..m -> S] : m \in 0..n}

Base(term, follows) == <<"Base", term, follows>>

Id(name) == Base(<<"Ident", name>>, <<>>)

IntE(i) == Base(<<"Int", i>>, <<>>)

Field(k, ident) == <<"FollowField", k, ident>>

Index(e) == <<"FollowIndex", e>>

Call(k, ident, args) == <<"FollowCall", k, ident, args>>

ParamNames == {"a", "usr"}

ParamLists == SeqsUpTo(ParamNames, MaxParams)

IdentNames == {"a", "b", ".", "usr", "src", "args", "world", "global"}

Atoms == {IntE(1), Id("a")}

\* x = 1 as a call argument: a named argument
NamedArg == <<"AssignOp", "Assign", Id("x"), IntE(1)>>

IsSafe(k) == k \in {"SafeDot", "SafeColon"}

FollowElems ==
    {Field(k, "b") : k \in {"Dot", "Colon", "SafeDot", "SafeColon"}}
    \cup {Index(IntE(1))}
    \cup {Call(k, "f", args) :
            k \in {"Dot", "SafeDot"}, args \in {<<>>, <<Id("a")>>, <<NamedArg>>}}
    \cup {Call(k, "f", <<>>) : k \in {"Colon", "SafeColon"}}

\* a safe field directly followed by another safe field is left out: the
\* EvalKind of compiler.rs has no SafeField for emit_move_to_chain_builder
FollowOk(fs) ==
    \A i \in 1..(Len(fs) - 1) :
        ~(/\ fs[i][1] = "FollowField" /\ IsSafe(fs[i][2])
          /\ fs[i + 1][1] = "FollowField" /\ IsSafe(fs[i + 1][2]))

FollowChains == {fs \in SeqsUpTo(FollowElems, MaxFollow) : FollowOk(fs)}

ChainExprs ==
    {Base(<<"Ident", b>>, fs) : b \in {"a", "global"}, fs \in FollowChains}
    \cup {Base(<<"Ident", "a">>, <<Field("SafeDot", "b")>> \o fs) :
            fs \in SeqsUpTo({Field("Dot", "c"), Field("Colon", "d")}, MaxFollow)}

And(l, r) == <<"BinaryOp", "And", l, r>>

\* arguments a nested method call may carry besides another method call
CallSeeds ==
    Atoms \cup {And(Id("a"), IntE(1)),
                Base(<<"Ident", "a">>, <<Field("SafeDot", "b"), Field("Dot", "c")>>)}

RECURSIVE NestedCalls(_)
NestedCalls(d) ==
    IF d = 0 THEN CallSeeds
    ELSE LET inner == NestedCalls(d - 1)
         IN  inner
             \cup {Base(<<"Ident", "a">>, <<Call(k, "f", <<x>>)>>) :
                     k \in {"Dot", "SafeDot"}, x \in inner}
             \cup {Base(<<"Ident", "a">>, <<Call(k, "g", <<IntE(1), x>>)>>) :
                     k \in {"Dot", "SafeDot"}, x \in inner}

PickOf(args) == Base(<<"Pick", args>>, <<>>)

PickArgs ==
    {<<w, b>> : w \in {None, Some(IntE(5))}, b \in Atoms}

Pick2 == PickOf(<< <<None, IntE(1)>>, <<None, Id("a")>> >>)

SafeCallA == Base(<<"Ident", "a">>, <<Call("SafeDot", "f", <<>>)>>)

CallA == Base(<<"Ident", "a">>, <<Call("Dot", "f", <<IntE(1)>>)>>)

PickExprs ==
    {PickOf(args) : args \in SeqsUpTo(PickArgs, MaxPick)}
    \cup {PickOf(<< <<w, b>>, <<None, IntE(1)>> >>) :
            w \in {None, Some(Pick2), Some(Id("global")), Some(SafeCallA)},
            b \in {Pick2, SafeCallA, CallA, And(Id("a"), IntE(1)), Id("global")}}
    \cup {PickOf(<< <<None, b>> >>) : b \in {Pick2, Id("global")}}

Repeat(x, n) == [i \in 1..n |-> x]

DynLhs ==
    {Repeat(x, n) : x \in Atoms, n \in 0..3}
    \cup {<<Id("a"), IntE(1)>>, <<Id("global")>>, <<SafeCallA, Pick2>>}

DynamicCallExprs ==
    {Base(<<"DynamicCall", lhs, rhs, shape>>, <<>>) :
        lhs \in DynLhs,
        rhs \in {<<>>, <<IntE(1)>>, <<Id("a"), IntE(2)>>},
        shape \in {"Normal", "Assoc", "ArgList"}}

LocateExprs ==
    {Base(<<"Locate", Repeat(x, n), in_list>>, <<>>) :
        x \in Atoms \cup {Id("global")}, n \in 0..4,
        in_list \in {None, Some(Id("a")), Some(Id("global")), Some(Pick2)}}

BinaryOperands ==
    Atoms \cup {CallA, SafeCallA, Pick2,
                Base(<<"Ident", "a">>, <<Field("SafeDot", "b")>>),
                Base(<<"Expr", And(Id("a"), IntE(1))>>, <<>>),
                Id("global")}

BinaryExprs ==
    {<<"BinaryOp", op, l, r>> :
        op \in {"And", "Or", "Add"}, l \in BinaryOperands, r \in BinaryOperands}

ParenExprs ==
    {Base(<<"Expr", e>>, fs) :
        e \in {Id("a"), And(Id("a"), CallA), Pick2, SafeCallA, Id("global")},
        fs \in {<<>>, <<Field("Dot", "b")>>, <<Call("Dot", "f", <<>>)>>,
                <<Field("SafeDot", "b"), Field("Dot", "c")>>,
                <<Index(Id("a"))>>}}

LeafExprs ==
    {Id(n) : n \in IdentNames}
    \cup {IntE(1), Base(<<"Null">>, <<>>), Base(<<"SelfCall">>, <<>>)}

\* expressions compiled under every parameter list
SmallExprs ==
    LeafExprs
    \cup {Base(<<"Ident", n>>, <<Field("Dot", "b")>>) : n \in {"usr", "global"}}
    \cup {CallA, SafeCallA, Pick2}

\* the bases a chain of plain field accesses is read off: a parameter, a
\* fixed name, a global variable, `global`, a literal in brackets (Stack) and
\* a list entry in brackets (ListRef)
ListEntry == Base(<<"Ident", "a">>, <<Index(IntE(1))>>)

PlainBases ==
    {<<"Ident", n>> : n \in {"a", "usr", "b", "global"}}
    \cup {<<"Expr", IntE(1)>>, <<"Expr", ListEntry>>}

PlainFields == {Field(k, n) : k \in {"Dot", "Colon"}, n \in {"c", "d"}}

\* a.c, a:c.d, global.c:d.c, (1).c, (a[1]).d:c ...
PlainChainExprs ==
    {Base(t, fs) : t \in PlainBases,
                   fs \in SeqsUpTo(PlainFields, MaxFollow + 1) \ {<<>>}}

\* global.f(), global.c.f(a), global:c.d:f() ...
GlobalCallExprs ==
    {Base(<<"Ident", "global">>, fs \o <<Call(k, "f", args)>>) :
        fs \in SeqsUpTo(PlainFields, MaxFollow), k \in {"Dot", "Colon"},
        args \in {<<>>, <<Id("a")>>, <<IntE(1), Id("a")>>}}

\* expressions compiled with the one parameter "a"
BigExprs ==
    ChainExprs \cup NestedCalls(MaxNest) \cup PickExprs \cup DynamicCallExprs
    \cup LocateExprs \cup BinaryExprs \cup ParenExprs \cup PlainChainExprs
    \cup GlobalCallExprs

Inputs ==
    (ParamLists \X SmallExprs) \cup ({<<"a">>} \X BigExprs)

-----------------------------------------------------------------------------
(* The machine *)

Init ==
    /\ \E input \in Inputs : params = input[1] /\ expr = input[2]
    /\ nodes = << <<"DbgFile">> >>
    /\ label_count = 0
    /\ short_circuit_labels = <<>>
    /\ kind = <<"Unset">>
    /\ work = << <<"emit_expr", expr>>, <<"emit_move_to_stack">>, <<"finish">> >>
    /\ status = "running"
    /\ error = NoError
    /\ vpc = 1
    /\ vcache = <<"Unset">>
    /\ vsave = <<>>
    /\ vtrace = <<>>

Cur == [nodes |-> nodes, label_count |-> label_count, err |-> NoError,
        ret |-> kind]

Top == Head(work)

Rest == Tail(work)

Running(tag) == status = "running" /\ work # <<>> /\ Head(work)[1] = tag

\* the state after a segment that left the compiler as c: on success the
\* EvalKind is k and the continuation w; on failure the compile is over
Commit(c, k, w, scl) ==
    /\ nodes' = c.nodes
    /\ label_count' = c.label_count
    /\ short_circuit_labels' = scl
    /\ IF c.err = NoError
       THEN kind' = k /\ work' = w /\ UNCHANGED <<status, error>>
       ELSE kind' = kind /\ work' = <<>> /\ status' = "err" /\ error' = c.err
    /\ UNCHANGED <<params, expr, vmvars>>

\* for arg in args { let k = compiler.emit_expr(arg)?; emit_move_to_stack(k)? }
ArgTasks(args) ==
    Concat([i \in 1..Len(args) |->
              << <<"emit_expr", args[i]>>, <<"emit_move_to_stack">> >>])

\* args::emit and args::emit_normal: every argument is brought to the stack
ArgsEmitTasks(args) == ArgTasks(args)

InnerTasks(e) ==
    CASE e[1] = "Base"     -> << <<"term", e[2]>>, <<"follow", e[3], <<>>>> >>
      [] e[1] = "BinaryOp" -> << <<"binary_ops", e[2], e[3], e[4]>> >>

\* mutant: the scope is never closed
EmitExprTasksNoEnd(e) == InnerTasks(e)

EmitExprTasks(e) == InnerTasks(e) \o << <<"emit_expr_end">> >>

\* compiler.rs 241-246
EmitExpr ==
    /\ Running("emit_expr")
    /\ LET label == label_count
       IN  Commit(AllocLabel(Cur), kind, EmitExprTasks(Top[2]) \o Rest,
                  Append(short_circuit_labels, <<label, FALSE>>))

\* mutant: the label of every scope is placed, used or not
ScopeUsedAlways(entry) == TRUE

\* compiler.rs 248-251: whether short_circuit() referenced the popped label
ScopeUsed(entry) == entry[2]

EmitExprUsed(c, k, label) == EmitLabel(EmitMoveToStack(c, k), label)

\* compiler.rs 248-257
EmitExprEnd ==
    /\ Running("emit_expr_end")
    /\ LET n      == Len(short_circuit_labels)
           label  == short_circuit_labels[n][1]
           used   == ScopeUsed(short_circuit_labels[n])
           popped == SubSeq(short_circuit_labels, 1, n - 1)
       IN  IF used
           THEN Commit(EmitExprUsed(Cur, kind, label), Stack, Rest, popped)
           ELSE Commit(Cur, kind, Rest, popped)

MoveToStack ==
    /\ Running("emit_move_to_stack")
    /\ Commit(EmitMoveToStack(Cur, kind), Stack, Rest, short_circuit_labels)

\* mutant: the list is sized for the parameters alone
FinishNodesShort(c, ps) ==
    LET gets == [i \in 1..Len(ps) |-> <<"GetVar", <<"Arg", i - 1>>>>]
    IN  [c EXCEPT !.nodes = @ \o gets
                              \o << <<"NewList", Len(ps)>>, <<"Ret">> >>]

\* compiler.rs 97-105
FinishNodes(c, ps) ==
    LET gets == [i \in 1..Len(ps) |-> <<"GetVar", <<"Arg", i - 1>>>>]
    IN  [c EXCEPT !.nodes = @ \o gets
                              \o << <<"NewList", Len(ps) + 1>>, <<"Ret">> >>]

CompileFinish ==
    /\ Running("finish")
    /\ nodes' = FinishNodes(Cur, params).nodes
    /\ status' = "ok"
    /\ work' = Rest
    /\ UNCHANGED <<params, expr, label_count, short_circuit_labels, kind,
                   error, vmvars>>

-----------------------------------------------------------------------------
(* term::emit *)

Term == Top[2]

\* term.rs 13-20
TermLiteral ==
    /\ Running("term") /\ Term[1] \in {"Null", "Int"}
    /\ LET ins == IF Term[1] = "Null" THEN <<"PushVal", <<"Null">>>>
                  ELSE <<"PushInt", Term[2]>>
       IN  Commit(EmitIns(Cur, ins), Stack, Rest, short_circuit_labels)

\* term.rs 31
TermIdent ==
    /\ Running("term") /\ Term[1] = "Ident"
    /\ Commit(Cur, EmitFindVar(params, Term[2]), Rest, short_circuit_labels)

\* term.rs 10
TermExpr ==
    /\ Running("term") /\ Term[1] = "Expr"
    /\ Commit(Cur, kind, << <<"emit_expr", Term[2]>> >> \o Rest,
              short_circuit_labels)

\* term.rs 155-159
TermRelativeCall ==
    /\ Running("term") /\ Term[1] = "SelfCall"
    /\ Commit(Fail(Cur, <<"UnsupportedRelativeCall">>), kind, Rest,
              short_circuit_labels)

\* mutant: a third left-hand argument is let through
DynamicCallCheckLoose(c, lhs_len) ==
    IF lhs_len = 0 THEN Fail(c, <<"MissingArgument", "call", 1>>)
    ELSE IF lhs_len > 3 THEN Fail(c, <<"TooManyArguments", "call", 2>>)
    ELSE c

\* term.rs 104-116
DynamicCallCheck(c, lhs_len) ==
    IF lhs_len = 0 THEN Fail(c, <<"MissingArgument", "call", 1>>)
    ELSE IF lhs_len > 2 THEN Fail(c, <<"TooManyArguments", "call", 2>>)
    ELSE c

\* term.rs 100-125
TermDynamicCall ==
    /\ Running("term") /\ Term[1] = "DynamicCall"
    /\ LET lhs == Term[2]
           rhs == Term[3]
       IN  Commit(DynamicCallCheck(Cur, Len(lhs)), kind,
                  ArgTasks(lhs) \o ArgsEmitTasks(rhs)
                  \o << <<"dynamic_call_end", Len(lhs), Len(rhs), Term[4]>> >>
                  \o Rest,
                  short_circuit_labels)

DynamicCallIns(c, lhs_len, rhs_len, shape) ==
    CASE shape = "Normal"  ->
            IF lhs_len = 1 THEN EmitIns(c, <<"CallPath", rhs_len>>)
            ELSE EmitIns(c, <<"CallName", rhs_len>>)
      [] shape = "Assoc"   ->
            LET c1 == EmitIns(c, <<"NewAssocList", rhs_len>>)
            IN  IF lhs_len = 1 THEN EmitIns(c1, <<"CallPathArgList">>)
                ELSE EmitIns(c1, <<"CallNameArgList">>)
      [] shape = "ArgList" ->
            IF lhs_len = 1 THEN EmitIns(c, <<"CallPathArgList">>)
            ELSE EmitIns(c, <<"CallNameArgList">>)

\* term.rs 125-152
DynamicCallEnd ==
    /\ Running("dynamic_call_end")
    /\ Commit(DynamicCallIns(Cur, Top[2], Top[3], Top[4]), Stack, Rest,
              short_circuit_labels)

\* term.rs 187-190
TermLocate ==
    /\ Running("term") /\ Term[1] = "Locate"
    /\ Commit(Cur, kind,
              ArgsEmitTasks(Term[2])
              \o << <<"locate_match", Len(Term[2]), Term[3]>> >> \o Rest,
              short_circuit_labels)

\* mutant: three or more arguments are taken for a position
LocateMatchInsAtLeast3(c, args_len, in_list) ==
    CASE args_len = 0 -> Fail(c, <<"UnsupportedImplicitLocate">>)
      [] args_len = 1 /\ in_list = None -> EmitIns(c, <<"LocateRef">>)
      [] args_len = 1 /\ in_list # None -> c
      [] args_len >= 3 -> EmitIns(c, <<"LocatePos">>)
      [] OTHER -> Fail(c, <<"InvalidLocateArgs">>)

\* term.rs 192-215 without the container's compilation
LocateMatchIns(c, args_len, in_list) ==
    CASE args_len = 0 -> Fail(c, <<"UnsupportedImplicitLocate">>)
      [] args_len = 1 /\ in_list = None -> EmitIns(c, <<"LocateRef">>)
      [] args_len = 1 /\ in_list # None -> c
      [] args_len = 3 -> EmitIns(c, <<"LocatePos">>)
      [] OTHER -> Fail(c, <<"InvalidLocateArgs">>)

LocateMatchTasks(args_len, in_list) ==
    IF args_len = 1 /\ in_list # None
    THEN << <<"emit_expr", in_list[1]>>, <<"emit_move_to_stack">>,
            <<"locate_type">> >>
    ELSE <<>>

\* term.rs 192-217
LocateMatch ==
    /\ Running("locate_match")
    /\ Commit(LocateMatchIns(Cur, Top[2], Top[3]),
              IF LocateMatchTasks(Top[2], Top[3]) = <<>> THEN Stack ELSE kind,
              LocateMatchTasks(Top[2], Top[3]) \o Rest, short_circuit_labels)

\* term.rs 206, 217
LocateType ==
    /\ Running("locate_type")
    /\ Commit(EmitIns(Cur, <<"LocateType">>), Stack, Rest,
              short_circuit_labels)

\* term.rs 221-246: the count check, and label_end of a multi-branch pick
PickCheck(c, args) ==
    CASE Len(args) = 0 -> Fail(c, <<"MissingArgument", "pick", 1>>)
      [] Len(args) = 1 ->
            IF args[1][1] # None THEN Fail(c, <<"UnexpectedProbability">>)
            ELSE c
      [] OTHER -> AllocLabel(c)

PickTasks(args, label_end) ==
    IF Len(args) = 1
    THEN << <<"emit_expr", args[1][2]>>, <<"emit_move_to_stack">>,
            <<"pick_single">> >>
    ELSE << <<"pick_weights", label_end, <<>>, args>> >>

\* term.rs 220-248
TermPick ==
    /\ Running("term") /\ Term[1] = "Pick"
    /\ Commit(PickCheck(Cur, Term[2]), kind,
              PickTasks(Term[2], label_count) \o Rest, short_circuit_labels)

\* term.rs 240, 284
PickSingle ==
    /\ Running("pick_single")
    /\ Commit(EmitIns(Cur, <<"Pick">>), Stack, Rest, short_circuit_labels)

DefaultWeight(c) == EmitIns(c, <<"PushInt", 100>>)

\* term.rs 250-262, a branch without a weight: the default weight is pushed
\* and the branch label allocated
PickWeightDefault ==
    /\ Running("pick_weights") /\ Top[4] # <<>> /\ Head(Top[4])[1] = None
    /\ LET label == label_count
           rhs   == Head(Top[4])[2]
       IN  Commit(AllocLabel(DefaultWeight(Cur)), kind,
                  << <<"pick_weights", Top[2], Append(Top[3], <<label, rhs>>),
                      Tail(Top[4])>> >> \o Rest,
                  short_circuit_labels)

\* term.rs 250-255, a branch with a weight: the weight is compiled
PickWeightExpr ==
    /\ Running("pick_weights") /\ Top[4] # <<>> /\ Head(Top[4])[1] # None
    /\ Commit(Cur, kind,
              << <<"emit_expr", Head(Top[4])[1][1]>>, <<"emit_move_to_stack">>,
                 <<"pick_alloc", Top[2], Top[3], Top[4]>> >> \o Rest,
              short_circuit_labels)

\* term.rs 260-261 after a compiled weight
PickAlloc ==
    /\ Running("pick_alloc")
    /\ LET label == label_count
           rhs   == Head(Top[4])[2]
       IN  Commit(AllocLabel(Cur), kind,
                  << <<"pick_weights", Top[2], Append(Top[3], <<label, rhs>>),
                      Tail(Top[4])>> >> \o Rest,
                  short_circuit_labels)

\* mutant: the case list is built back to front
PickProbInsReversed(branches) ==
    <<"PickProb",
      [i \in 1..Len(branches) |-> branches[Len(branches) + 1 - i][1]]>>

\* term.rs 264-269: the case list, in branch order
PickProbIns(branches) ==
    <<"PickProb", [i \in 1..Len(branches) |-> branches[i][1]]>>

\* term.rs 264-269
PickProb ==
    /\ Running("pick_weights") /\ Top[4] = <<>>
    /\ Commit(EmitIns(Cur, PickProbIns(Top[3])), kind,
              << <<"pick_branches", Top[2], Top[3]>> >> \o Rest,
              short_circuit_labels)

\* term.rs 271-275
PickBranch ==
    /\ Running("pick_branches") /\ Top[3] # <<>>
    /\ LET label == Head(Top[3])[1]
           body  == Head(Top[3])[2]
       IN  Commit(EmitLabel(Cur, label), kind,
                  << <<"emit_expr", body>>, <<"emit_move_to_stack">>,
                     <<"pick_jmp", Top[2]>>,
                     <<"pick_branches", Top[2], Tail(Top[3])>> >> \o Rest,
                  short_circuit_labels)

\* term.rs 277
PickJmp ==
    /\ Running("pick_jmp")
    /\ Commit(EmitIns(Cur, <<"Jmp", Top[2]>>), kind, Rest,
              short_circuit_labels)

\* term.rs 280, 284
PickEnd ==
    /\ Running("pick_branches") /\ Top[3] = <<>>
    /\ Commit(EmitLabel(Cur, Top[2]), Stack, Rest, short_circuit_labels)

-----------------------------------------------------------------------------
(* follow::emit.  The frame <<"follow", follows, field_buffer>> holds the  *)
(* accesses still to process and the buffered field names.                 *)

Follows == Top[2]

FieldBuffer == Top[3]

AtFollow(tag) ==
    /\ Running("follow") /\ Follows # <<>> /\ Head(Follows)[1] = tag

FollowFrame(fs, buffer) == << <<"follow", fs, buffer>> >>

\* follow.rs 21-23
FollowPlainField ==
    /\ AtFollow("FollowField") /\ ~IsSafe(Head(Follows)[2])
    /\ Commit(Cur, kind,
              FollowFrame(Tail(Follows), Append(FieldBuffer, Head(Follows)[3]))
              \o Rest,
              short_circuit_labels)

\* follow.rs 28-34
FollowSafeField ==
    /\ AtFollow("FollowField") /\ IsSafe(Head(Follows)[2])
    /\ LET c1 == CommitFieldBuffer(Cur, kind, FieldBuffer)
           c2 == EmitMoveToChainBuilder(c1, c1.ret)
       IN  Commit(c2, <<"SafeField", c2.ret, Head(Follows)[3]>>,
                  FollowFrame(Tail(Follows), <<>>) \o Rest,
                  short_circuit_labels)

\* follow.rs 38-45
FollowIndex ==
    /\ AtFollow("FollowIndex")
    /\ LET c1 == CommitFieldBuffer(Cur, kind, FieldBuffer)
           c2 == EmitMoveToStack(c1, c1.ret)
       IN  Commit(c2, Stack,
                  << <<"emit_expr", Head(Follows)[2]>>,
                     <<"emit_move_to_stack">>, <<"follow_index_end">> >>
                  \o FollowFrame(Tail(Follows), <<>>) \o Rest,
                  short_circuit_labels)

\* follow.rs 48
FollowIndexEnd ==
    /\ Running("follow_index_end")
    /\ Commit(Cur, <<"ListRef">>, Rest, short_circuit_labels)

HasNamedArg(args) == \E i \in 1..Len(args) : args[i][1] = "AssignOp"

\* follow.rs 54-59
FollowCallNamedArgs ==
    /\ AtFollow("FollowCall") /\ HasNamedArg(Head(Follows)[4])
    /\ Commit(Fail(Cur, <<"NamedArgumentsNotImplemented">>), kind, Rest,
              short_circuit_labels)

\* mutant: the buffered names are not looked at
IsGlobalCallAnyBuffer(k, buffer) == k = <<"Global">>

IsGlobalCall(k, buffer) == k = <<"Global">> /\ buffer = <<>>

\* follow.rs 63-72
FollowGlobalCall ==
    /\ AtFollow("FollowCall") /\ ~HasNamedArg(Head(Follows)[4])
    /\ ~IsSafe(Head(Follows)[2]) /\ IsGlobalCall(kind, FieldBuffer)
    /\ LET f == Head(Follows)
       IN  Commit(Cur, kind,
                  ArgTasks(f[4]) \o << <<"global_call_end", f[3], Len(f[4])>> >>
                  \o FollowFrame(Tail(Follows), FieldBuffer) \o Rest,
                  short_circuit_labels)

\* follow.rs 75-78, 142
GlobalCallEnd ==
    /\ Running("global_call_end")
    /\ Commit(EmitIns(Cur, <<"CallGlob", Top[3], <<"/proc/", Top[2]>>>>),
              Stack, Rest, short_circuit_labels)

\* follow.rs 84-92
CallBegin(c, k, buffer) ==
    LET c1 == CommitFieldBuffer(c, k, buffer)
        c2 == EmitMoveToStack(c1, c1.ret)
        c3 == EmitIns(c2, <<"SetVar", Cache>>)
    IN  EmitIns(c3, <<"PushCache">>)

\* follow.rs 83-98
FollowCall ==
    /\ AtFollow("FollowCall") /\ ~HasNamedArg(Head(Follows)[4])
    /\ ~IsSafe(Head(Follows)[2]) /\ ~IsGlobalCall(kind, FieldBuffer)
    /\ LET f == Head(Follows)
       IN  Commit(CallBegin(Cur, kind, FieldBuffer), Stack,
                  ArgTasks(f[4]) \o << <<"call_end", f[3], Len(f[4])>> >>
                  \o FollowFrame(Tail(Follows), <<>>) \o Rest,
                  short_circuit_labels)

\* mutant: the receiver is not restored before the call
CallEndInsNoPop(c, ident, arg_count) ==
    EmitIns(c, <<"Call", <<"DynamicProc", ident>>, arg_count>>)

\* follow.rs 100-106
CallEndIns(c, ident, arg_count) ==
    EmitIns(EmitIns(c, <<"PopCache">>),
            <<"Call", <<"DynamicProc", ident>>, arg_count>>)

\* follow.rs 100-106, 142
CallEnd ==
    /\ Running("call_end")
    /\ Commit(CallEndIns(Cur, Top[2], Top[3]), Stack, Rest,
              short_circuit_labels)

\* mutant: the scratch slot is saved before the null test
SafeCallBeginPushFirst(c, k, buffer) ==
    LET c1 == CommitFieldBuffer(c, k, buffer)
        c2 == EmitMoveToStack(c1, c1.ret)
        label == c2.label_count
        c3 == AllocLabel(c2)
        c4 == EmitIns(c3, <<"PushCache">>)
    IN  Return(EmitIns(c4, <<"SetCacheJmpIfNull", label>>), label)

\* follow.rs 111-122
SafeCallBegin(c, k, buffer) ==
    LET c1 == CommitFieldBuffer(c, k, buffer)
        c2 == EmitMoveToStack(c1, c1.ret)
        label == c2.label_count
        c3 == AllocLabel(c2)
        c4 == EmitIns(c3, <<"SetCacheJmpIfNull", label>>)
    IN  Return(EmitIns(c4, <<"PushCache">>), label)

\* follow.rs 110-128
FollowSafeCall ==
    /\ AtFollow("FollowCall") /\ ~HasNamedArg(Head(Follows)[4])
    /\ IsSafe(Head(Follows)[2])
    /\ LET f == Head(Follows)
           c == SafeCallBegin(Cur, kind, FieldBuffer)
       IN  Commit(c, Stack,
                  ArgTasks(f[4])
                  \o << <<"safe_call_end", f[3], Len(f[4]), c.ret>> >>
                  \o FollowFrame(Tail(Follows), <<>>) \o Rest,
                  short_circuit_labels)

\* follow.rs 130-138
SafeCallEndIns(c, ident, args_count, label) ==
    EmitLabel(CallEndIns(c, ident, args_count), label)

\* follow.rs 130-138, 142
SafeCallEnd ==
    /\ Running("safe_call_end")
    /\ Commit(SafeCallEndIns(Cur, Top[2], Top[3], Top[4]), Stack, Rest,
              short_circuit_labels)

\* follow.rs 147-148
FollowEnd ==
    /\ Running("follow") /\ Follows = <<>>
    /\ LET c == CommitFieldBuffer(Cur, kind, FieldBuffer)
       IN  Commit(c, c.ret, Rest, short_circuit_labels)

-----------------------------------------------------------------------------
(* binary_ops::emit: && and || jump to the enclosing short-circuit label   *)
(* when the left operand decides the result; + stands for the operators    *)
(* that do not short-circuit.                                              *)

IsShortCircuitOp(op) == op \in {"And", "Or"}

\* mutant: the outermost entry is marked instead of the nearest
ShortCircuitOutermost(scl) == [scl EXCEPT ![1] = <<@[1], TRUE>>]

\* compiler.rs 215-219: the labels after short_circuit() marked the top used
ShortCircuit(scl) == [scl EXCEPT ![Len(scl)] = <<@[1], TRUE>>]

ShortCircuitLabel(scl) == scl[Len(scl)][1]

BinaryOpShortCircuit ==
    /\ Running("binary_ops") /\ IsShortCircuitOp(Top[2])
    /\ Commit(Cur, kind,
              << <<"emit_expr", Top[3]>>, <<"emit_move_to_stack">>,
                 <<"binary_jump", Top[2],
                   ShortCircuitLabel(short_circuit_labels)>>,
                 <<"emit_expr", Top[4]>>, <<"emit_move_to_stack">>,
                 <<"binary_end", Top[2]>> >> \o Rest,
              ShortCircuit(short_circuit_labels))

BinaryJump ==
    /\ Running("binary_jump")
    /\ Commit(EmitIns(Cur, <<IF Top[2] = "And" THEN "JmpAnd" ELSE "JmpOr",
                             Top[3]>>),
              kind, Rest, short_circuit_labels)

BinaryOpPlain ==
    /\ Running("binary_ops") /\ ~IsShortCircuitOp(Top[2])
    /\ Commit(Cur, kind,
              << <<"emit_expr", Top[3]>>, <<"emit_move_to_stack">>,
                 <<"emit_expr", Top[4]>>, <<"emit_move_to_stack">>,
                 <<"binary_end", Top[2]>> >> \o Rest,
              short_circuit_labels)

BinaryEnd ==
    /\ Running("binary_end")
    /\ Commit(IF IsShortCircuitOp(Top[2]) THEN Cur ELSE EmitIns(Cur, <<Top[2]>>),
              Stack, Rest, short_circuit_labels)

-----------------------------------------------------------------------------
(* The virtual machine running a compiled stream: a program counter, the   *)
(* scratch slot and the save stack.  Values are abstract: <<"R", i>> is    *)
(* the value node i stored in the scratch slot, <<"X", i>> whatever node i *)
(* left there as a side effect, <<"Null">> a tested null.                  *)

VMAt == nodes[vpc]

VMRunning == status = "ok" /\ vpc <= Len(nodes)

\* index of the node placing `label`; past the end when it is not placed
LabelPos(label) ==
    LET I == {i \in 1..Len(nodes) : nodes[i] = <<"Label", label>>}
    IN  IF I = {} THEN Len(nodes) + 1
        ELSE CHOOSE i \in I : \A j \in I : i <= j

VMGoto(pc, cache, save) ==
    /\ vpc' = pc
    /\ vcache' = cache
    /\ vsave' = save
    /\ vtrace' = Append(vtrace, vpc)
    /\ UNCHANGED cvars

\* an operand resolved through a chain loads the scratch slot on its way
ClobbersCache(node) ==
    \/ node[1] \in {"GetVar", "SetVar"} /\ node[2][1] = "Chain"
    \/ node[1] = "Call"

\* SetVar(Cache): the scratch slot takes the value on the stack
VMSetCache ==
    /\ VMRunning /\ VMAt = <<"SetVar", Cache>>
    /\ VMGoto(vpc + 1, <<"R", vpc>>, vsave)

\* SetCacheJmpIfNull with a value: the scratch slot takes it
VMTestNotNull ==
    /\ VMRunning /\ VMAt[1] = "SetCacheJmpIfNull"
    /\ VMGoto(vpc + 1, <<"R", vpc>>, vsave)

\* SetCacheJmpIfNull with null: jump
VMTestNull ==
    /\ VMRunning /\ VMAt[1] = "SetCacheJmpIfNull"
    /\ VMGoto(LabelPos(VMAt[2]), <<"Null">>, vsave)

VMPushCache ==
    /\ VMRunning /\ VMAt = <<"PushCache">>
    /\ VMGoto(vpc + 1, vcache, Append(vsave, vcache))

VMPopCache ==
    /\ VMRunning /\ VMAt = <<"PopCache">> /\ vsave # <<>>
    /\ VMGoto(vpc + 1, vsave[Len(vsave)], SubSeq(vsave, 1, Len(vsave) - 1))

VMJmp ==
    /\ VMRunning /\ VMAt[1] = "Jmp"
    /\ VMGoto(LabelPos(VMAt[2]), vcache, vsave)

\* a short-circuit jump taken
VMShortCircuit ==
    /\ VMRunning /\ VMAt[1] \in {"JmpAnd", "JmpOr"}
    /\ VMGoto(LabelPos(VMAt[2]), vcache, vsave)

VMPickProb ==
    /\ VMRunning /\ VMAt[1] = "PickProb"
    /\ \E i \in 1..Len(VMAt[2]) : VMGoto(LabelPos(VMAt[2][i]), vcache, vsave)

VMRet ==
    /\ VMRunning /\ VMAt = <<"Ret">>
    /\ VMGoto(Len(nodes) + 1, vcache, vsave)

\* every other node, and a conditional jump not taken: fall through
VMStep ==
    /\ VMRunning
    /\ VMAt[1] \notin {"SetCacheJmpIfNull", "PushCache", "PopCache", "Jmp",
                       "PickProb", "Ret"}
    /\ VMAt # <<"SetVar", Cache>>
    /\ VMGoto(vpc + 1,
              IF ClobbersCache(VMAt) THEN <<"X", vpc>> ELSE vcache, vsave)

-----------------------------------------------------------------------------

CompileNext ==
    \/ EmitExpr \/ EmitExprEnd \/ MoveToStack \/ CompileFinish
    \/ TermLiteral \/ TermIdent \/ TermExpr \/ TermRelativeCall
    \/ TermDynamicCall \/ DynamicCallEnd
    \/ TermLocate \/ LocateMatch \/ LocateType
    \/ TermPick \/ PickSingle \/ PickWeightDefault \/ PickWeightExpr
    \/ PickAlloc \/ PickProb \/ PickBranch \/ PickJmp \/ PickEnd
    \/ FollowPlainField \/ FollowSafeField \/ FollowIndex \/ FollowIndexEnd
    \/ FollowCallNamedArgs \/ FollowGlobalCall \/ GlobalCallEnd
    \/ FollowCall \/ CallEnd \/ FollowSafeCall \/ SafeCallEnd \/ FollowEnd
    \/ BinaryOpShortCircuit \/ BinaryJump \/ BinaryOpPlain \/ BinaryEnd

VMNext ==
    \/ VMSetCache \/ VMTestNotNull \/ VMTestNull \/ VMPushCache \/ VMPopCache
    \/ VMJmp \/ VMShortCircuit \/ VMPickProb \/ VMRet \/ VMStep

Next == CompileNext \/ VMNext

Spec == Init /\ [][Next]_vars

-----------------------------------------------------------------------------
(* Vocabulary of the properties *)

Range(s) == {s[i] : i \in 1..Len(s)}

TermChildren(t) ==
    CASE t[1] = "Expr"        -> {t[2]}
      [] t[1] = "DynamicCall" -> Range(t[2]) \cup Range(t[3])
      [] t[1] = "Locate"      -> Range(t[2]) \cup Range(t[3])
      [] t[1] = "Pick"        ->
            UNION {Range(t[2][i][1]) \cup {t[2][i][2]} : i \in 1..Len(t[2])}
      [] OTHER                -> {}

FollowChildren(f) ==
    CASE f[1] = "FollowIndex" -> {f[2]}
      [] f[1] = "FollowCall"  -> Range(f[4])
      [] OTHER                -> {}

Children(e) ==
    IF e[1] = "Base"
    THEN TermChildren(e[2]) \cup UNION {FollowChildren(e[3][i]) : i \in 1..Len(e[3])}
    ELSE {e[3], e[4]}

\* e and every expression below it
RECURSIVE Descendants(_)
Descendants(e) == {e} \cup UNION {Descendants(c) : c \in Children(e)}

HasSafeNavigation(e) ==
    \E d \in Descendants(e) :
        /\ d[1] = "Base"
        /\ \E i \in 1..Len(d[3]) :
              d[3][i][1] \in {"FollowField", "FollowCall"} /\ IsSafe(d[3][i][2])

HasShortCircuit(e) ==
    \E d \in Descendants(e) : d[1] = "BinaryOp" /\ IsShortCircuitOp(d[2])

HasMultiPick(e) ==
    \E d \in Descendants(e) :
        d[1] = "Base" /\ d[2][1] = "Pick" /\ Len(d[2][2]) >= 2

IsLabel(node) == node[1] = "Label"

LabelNodes == {i \in 1..Len(nodes) : IsLabel(nodes[i])}

\* how many nodes place `label`
Placed(label) == Cardinality({i \in 1..Len(nodes) : nodes[i] = <<"Label", label>>})

\* the labels an instruction's operand refers to
Refs(node) ==
    CASE node[1] \in {"SetCacheJmpIfNull", "Jmp", "JmpAnd", "JmpOr"} -> {node[2]}
      [] node[1] = "PickProb" -> Range(node[2])
      [] OTHER -> {}

Done == status = "ok"

FixedSlots ==
    [n \in {".", "usr", "src", "args", "world"} |->
        CASE n = "."     -> <<"Var", <<"Dot">>>>
          [] n = "usr"   -> <<"Var", <<"Usr">>>>
          [] n = "src"   -> <<"Var", <<"Src">>>>
          [] n = "args"  -> <<"Var", <<"Args">>>>
          [] n = "world" -> <<"Var", <<"World">>>>]

\* what C9 says identifier n resolves to under the parameter list ps
Resolved(ps, n) ==
    LET P == {i \in 1..Len(ps) : ps[i] = n}
    IN  IF P # {}
        THEN <<"Var", <<"Arg", (CHOOSE i \in P : \A j \in P : j <= i) - 1>>>>
        ELSE IF n \in DOMAIN FixedSlots THEN FixedSlots[n]
        ELSE IF n = "global" THEN <<"Global">>
        ELSE <<"Var", <<"GlobalVar", n>>>>

\* the one instruction a literal or an identifier is brought to the stack with
AtomPush(e) ==
    IF e[2][1] = "Int" THEN <<"PushInt", e[2][2]>>
    ELSE <<"GetVar", Resolved(params, e[2][2])[2]>>

-----------------------------------------------------------------------------
\* C1 as stated: a successfully compiled expression with no safe-navigation
\* access and no short-circuit operator has no Label node in its stream.
\* pick(1, a) refutes it.
C1_NoLabelsAsStated ==
    (Done /\ ~HasSafeNavigation(expr) /\ ~HasShortCircuit(expr))
        => LabelNodes = {}

\* C1 amended: a successfully compiled expression with no safe-navigation
\* access, no short-circuit operator and no pick of two or more branches
\* has no Label node in its stream.
C1_NoLabels ==
    (Done /\ ~HasSafeNavigation(expr) /\ ~HasShortCircuit(expr)
          /\ ~HasMultiPick(expr))
        => LabelNodes = {}

\* a label-free compile of nested method calls: several emit_expr scopes
\* were opened and dropped unused
C1_Witness ==
    /\ Done /\ ~HasSafeNavigation(expr) /\ ~HasShortCircuit(expr)
    /\ ~HasMultiPick(expr)
    /\ label_count >= 3
    /\ \E i \in 1..Len(nodes) : nodes[i][1] = "Call"

\* C2: in a returned stream every label an instruction refers to is placed
\* exactly once and no two Label nodes carry the same name.
C2_LabelsPlacedOnce ==
    Done =>
        /\ \A i \in 1..Len(nodes) : \A l \in Refs(nodes[i]) : Placed(l) = 1
        /\ \A i, j \in LabelNodes : nodes[i] = nodes[j] => i = j
        /\ \A i \in LabelNodes : nodes[i][2] < label_count

\* a returned stream with a null guard, a pick table and a short-circuit jump
C2_Witness ==
    /\ Done
    /\ \E i \in 1..Len(nodes) : nodes[i][1] = "SetCacheJmpIfNull"
    /\ \E i \in 1..Len(nodes) : nodes[i][1] = "PickProb"
    /\ Cardinality(LabelNodes) >= 4

-----------------------------------------------------------------------------
(* a?.b.c: one safe field access followed by plain field accesses only *)

IsSafeThenPlain(e) ==
    /\ e[1] = "Base" /\ e[2][1] = "Ident" /\ Len(e[3]) >= 2
    /\ e[3][1][1] = "FollowField" /\ IsSafe(e[3][1][2])
    /\ \A i \in 2..Len(e[3]) :
          e[3][i][1] = "FollowField" /\ ~IsSafe(e[3][i][2])

\* the nodes reading the last field of the chain of e
LastFieldReads(e) ==
    {r \in 1..Len(nodes) :
        /\ nodes[r][1] = "GetVar" /\ nodes[r][2][1] = "Chain"
        /\ nodes[r][2][3][Len(nodes[r][2][3])] = e[3][Len(e[3])][3]}

NullGuards == {i \in 1..Len(nodes) : nodes[i][1] = "SetCacheJmpIfNull"}

\* C3 as stated: for a?.b.c the null guard of `a` jumps to a label placed
\* after the instruction reading `.c`, so on the null path `.c` is not read.
\* The code places the label between the reads of `.b` and `.c`.
C3_GuardSkipsChain ==
    (Done /\ IsSafeThenPlain(expr)) =>
        /\ NullGuards # {} /\ LastFieldReads(expr) # {}
        /\ \A i \in NullGuards : \A r \in LastFieldReads(expr) :
              LabelPos(nodes[i][2]) > r
        /\ \A k \in 1..Len(vtrace) :
              (vtrace[k] \in NullGuards /\ k < Len(vtrace)
                 /\ vtrace[k + 1] # vtrace[k] + 1)
              => \A m \in (k + 1)..Len(vtrace) :
                     vtrace[m] \notin LastFieldReads(expr)

-----------------------------------------------------------------------------
(* Method calls on the virtual machine *)

CountIn(lo, hi, node) == Cardinality({i \in lo..hi : nodes[i] = node})

\* the PushCache that the PopCache at q restores, 0 when there is none
MatchPush(q) ==
    LET M == {p \in 1..(q - 1) :
                /\ nodes[p] = <<"PushCache">>
                /\ CountIn(p + 1, q - 1, <<"PushCache">>)
                     = CountIn(p + 1, q - 1, <<"PopCache">>)}
    IN  IF M = {} THEN 0 ELSE CHOOSE p \in M : \A r \in M : r <= p

\* depth of the save stack before the k-th executed node
SaveDepthBefore(k) ==
    Cardinality({m \in 1..(k - 1) : nodes[vtrace[m]] = <<"PushCache">>})
    - Cardinality({m \in 1..(k - 1) : nodes[vtrace[m]] = <<"PopCache">>})

\* the place in vtrace of node i, 0 when it was not executed
ExecutedAt(i) ==
    LET K == {k \in 1..Len(vtrace) : vtrace[k] = i}
    IN  IF K = {} THEN 0 ELSE CHOOSE k \in K : TRUE

\* the node executed after the k-th one
NextExecuted(k) == IF k < Len(vtrace) THEN vtrace[k + 1] ELSE vpc

CallNodes == {j \in 1..Len(nodes) : nodes[j][1] = "Call"}

\* the node that loaded the receiver of the Call at j into the scratch slot
ReceiverSet(j) == MatchPush(j - 1) - 1

ArgA == <<"GetVar", <<"Arg", 0>>>>

\* a.g(1, a) and its stream under the parameter list <<"a">>
CallG(k) == Base(<<"Ident", "a">>, <<Call(k, "g", <<IntE(1), Id("a")>>)>>)

CallGStream ==
    << <<"DbgFile">>, ArgA, <<"SetVar", Cache>>, <<"PushCache">>,
       <<"PushInt", 1>>, ArgA, <<"PopCache">>,
       <<"Call", <<"DynamicProc", "g">>, 2>>,
       ArgA, <<"NewList", 2>>, <<"Ret">> >>

\* C4: an ordinary method call is receiver, SetVar(Cache), PushCache, the
\* arguments, PopCache, Call; when the VM reaches the Call the scratch slot
\* holds the value that SetVar(Cache) stored and the save stack has the depth
\* it had then, whatever the arguments executed in between.
C4_ReceiverPreserved ==
    Done =>
        /\ (expr = CallG("Dot") /\ params = <<"a">>) => nodes = CallGStream
        /\ \A j \in CallNodes :
              /\ nodes[j - 1] = <<"PopCache">>
              /\ MatchPush(j - 1) # 0
              /\ nodes[ReceiverSet(j)][1] \in {"SetVar", "SetCacheJmpIfNull"}
              /\ (vpc = j /\ nodes[ReceiverSet(j)] = <<"SetVar", Cache>>) =>
                    /\ vcache = <<"R", ReceiverSet(j)>>
                    /\ ExecutedAt(ReceiverSet(j)) # 0
                    /\ Len(vsave) = SaveDepthBefore(ExecutedAt(ReceiverSet(j)))

\* the VM is about to execute an ordinary Call whose arguments executed
\* another Call, which left something else in the scratch slot
C4_Witness ==
    /\ Done /\ vpc \in CallNodes
    /\ nodes[ReceiverSet(vpc)] = <<"SetVar", Cache>>
    /\ vcache = <<"R", ReceiverSet(vpc)>>
    /\ \E m \in 1..Len(vtrace) :
          vtrace[m] \in CallNodes /\ vtrace[m] > ReceiverSet(vpc)

\* the null guards of safe calls (those of safe fields read the field next)
SafeCallGuards ==
    {i \in NullGuards : nodes[i + 1][1] # "GetVar" \/ nodes[i + 1][2][1] # "VarField"}

CallGSafeStream ==
    << <<"DbgFile">>, ArgA, <<"SetCacheJmpIfNull", 1>>, <<"PushCache">>,
       <<"PushInt", 1>>, ArgA, <<"PopCache">>,
       <<"Call", <<"DynamicProc", "g">>, 2>>, <<"Label", 1>>,
       ArgA, <<"NewList", 2>>, <<"Ret">> >>

\* C5: a safe method call tests the receiver right after materializing it
\* and before PushCache, and places the guard's label right after the Call;
\* on the null path nothing from PushCache to the Call is executed, and on
\* both paths the save stack at the label has the depth it had at the test.
C5_SafeCallGuard ==
    Done =>
        /\ (expr = CallG("SafeDot") /\ params = <<"a">>) => nodes = CallGSafeStream
        /\ \A i \in SafeCallGuards :
              LET q == LabelPos(nodes[i][2])
                  k == ExecutedAt(i)
              IN  /\ nodes[i + 1] = <<"PushCache">>
                  /\ q <= Len(nodes)
                  /\ nodes[q - 1][1] = "Call"
                  /\ nodes[q - 2] = <<"PopCache">>
                  /\ MatchPush(q - 2) = i + 1
                  /\ (k # 0 /\ NextExecuted(k) # i + 1) =>
                        /\ NextExecuted(k) = q
                        /\ \A m \in (k + 1)..Len(vtrace) :
                              vtrace[m] \notin (i + 1)..(q - 1)
                  /\ (k # 0 /\ vpc = q) => Len(vsave) = SaveDepthBefore(k)

\* the VM stands at the label of a safe call after a null receiver, with a
\* saved receiver of an enclosing call still on the save stack
C5_WitnessNull ==
    /\ Done
    /\ \E i \in SafeCallGuards :
          /\ vpc = LabelPos(nodes[i][2])
          /\ ExecutedAt(i) # 0
          /\ NextExecuted(ExecutedAt(i)) = vpc
          /\ vsave # <<>>

-----------------------------------------------------------------------------
(* Terms compiled as the whole expression *)

IsTopTerm(tag) == expr[1] = "Base" /\ expr[2][1] = tag /\ expr[3] = <<>>

Finished == status # "running"

Failed(e) == status = "err" /\ error = e

\* the last instruction of the expression in a returned stream whose
\* expression left its result on the stack
ResultIns == nodes[Len(nodes) - Len(params) - 2]

\* C6: a dynamic call with no left-hand argument fails with
\* MissingArgument{call, 1} and one with more than two with
\* TooManyArguments{call, 2}, nothing having been emitted; with one
\* left-hand argument the call instruction is CallPath or CallPathArgList,
\* with two CallName or CallNameArgList.
C6_DynamicCallArity ==
    (Finished /\ IsTopTerm("DynamicCall")) =>
        LET lhs_len == Len(expr[2][2])
        IN  /\ lhs_len = 0 =>
                  /\ Failed(<<"MissingArgument", "call", 1>>)
                  /\ nodes = << <<"DbgFile">> >>
            /\ lhs_len > 2 =>
                  /\ Failed(<<"TooManyArguments", "call", 2>>)
                  /\ nodes = << <<"DbgFile">> >>
            /\ (lhs_len = 1 /\ Done) =>
                  ResultIns[1] \in {"CallPath", "CallPathArgList"}
            /\ (lhs_len = 2 /\ Done) =>
                  ResultIns[1] \in {"CallName", "CallNameArgList"}

\* a two-part call by name with an associative argument list was compiled
C6_Witness ==
    /\ Done /\ IsTopTerm("DynamicCall") /\ Len(expr[2][2]) = 2
    /\ ResultIns = <<"CallNameArgList">>
    /\ \E i \in 1..Len(nodes) : nodes[i][1] = "NewAssocList"

-----------------------------------------------------------------------------
(* pick *)

\* the branch counts of the multi-branch picks of an expression, in the
\* order their PickProb is emitted: after the weights, before the bodies
RECURSIVE ExprPicks(_), SeqPicks(_), TermPicks(_), FollowPicks(_)
ExprPicks(e) ==
    IF e[1] = "Base"
    THEN TermPicks(e[2]) \o Concat([i \in 1..Len(e[3]) |-> FollowPicks(e[3][i])])
    ELSE ExprPicks(e[3]) \o ExprPicks(e[4])

SeqPicks(es) == Concat([i \in 1..Len(es) |-> ExprPicks(es[i])])

TermPicks(t) ==
    CASE t[1] = "Expr"        -> ExprPicks(t[2])
      [] t[1] = "DynamicCall" -> SeqPicks(t[2]) \o SeqPicks(t[3])
      [] t[1] = "Locate"      ->
            SeqPicks(t[2]) \o (IF Len(t[2]) = 1 THEN SeqPicks(t[3]) ELSE <<>>)
      [] t[1] = "Pick"        ->
            IF Len(t[2]) >= 2
            THEN Concat([i \in 1..Len(t[2]) |-> SeqPicks(t[2][i][1])])
                 \o <<Len(t[2])>>
                 \o Concat([i \in 1..Len(t[2]) |-> ExprPicks(t[2][i][2])])
            ELSE Concat([i \in 1..Len(t[2]) |-> ExprPicks(t[2][i][2])])
      [] OTHER                -> <<>>

FollowPicks(f) ==
    CASE f[1] = "FollowIndex" -> ExprPicks(f[2])
      [] f[1] = "FollowCall"  -> SeqPicks(f[4])
      [] OTHER                -> <<>>

IsPickProb(node) == node[1] = "PickProb"

PickProbNodes == {p \in 1..Len(nodes) : IsPickProb(nodes[p])}

\* the case counts of the PickProb nodes of the stream, in stream order
StreamPicks ==
    LET tables == SelectSeq(nodes, IsPickProb)
    IN  [i \in 1..Len(tables) |-> Len(tables[i][2])]

WeightPush(w) == IF w = None THEN <<"PushInt", 100>> ELSE AtomPush(w[1])

\* the table at p: its n >= 2 case labels are each placed once, in case
\* order, the first right after the table; every branch ends in a Jmp to
\* one end label, placed once after the last branch
PickTableOk(p) ==
    LET cs == nodes[p][2]
        n  == Len(cs)
    IN  /\ n >= 2
        /\ nodes[p + 1] = <<"Label", cs[1]>>
        /\ \A i \in 1..n : Placed(cs[i]) = 1
        /\ \A i \in 1..(n - 1) : LabelPos(cs[i]) + 3 <= LabelPos(cs[i + 1])
        /\ \E end \in 0..(label_count - 1) :
              /\ Placed(end) = 1
              /\ end \notin Range(cs)
              /\ LabelPos(cs[n]) + 3 <= LabelPos(end)
              /\ \A i \in 2..n : nodes[LabelPos(cs[i]) - 1] = <<"Jmp", end>>
              /\ nodes[LabelPos(end) - 1] = <<"Jmp", end>>
              /\ CountIn(1, Len(nodes), <<"Jmp", end>>) = n

\* a pick of literal-or-identifier weights and bodies as the whole expression
IsPlainPick(e) ==
    /\ e[1] = "Base" /\ e[2][1] = "Pick" /\ e[3] = <<>>
    /\ \A i \in 1..Len(e[2][2]) : e[2][2][i] \in PickArgs

\* C8: a pick of n >= 2 branches pushes one weight per branch (the compiled
\* weight, or 100) before one PickProb of n case labels in branch order;
\* the labels are then placed once each in that order, each followed by its
\* branch body and a Jmp to one shared end label placed once after the last
\* branch.  A one-argument pick with a weight fails with
\* UnexpectedProbability.
C8_PickTable ==
    /\ Done =>
          /\ StreamPicks = ExprPicks(expr)
          /\ \A p \in PickProbNodes : PickTableOk(p)
    /\ (Done /\ IsPlainPick(expr) /\ Len(expr[2][2]) >= 2) =>
          LET args == expr[2][2]
              n    == Len(args)
          IN  /\ \A i \in 1..n : nodes[1 + i] = WeightPush(args[i][1])
              /\ IsPickProb(nodes[n + 2])
              /\ \A i \in 1..n :
                    nodes[LabelPos(nodes[n + 2][2][i]) + 1] = AtomPush(args[i][2])
    /\ (Finished /\ IsTopTerm("Pick") /\ Len(expr[2][2]) = 1
          /\ expr[2][2][1][1] # None) =>
          Failed(<<"UnexpectedProbability">>)

\* a pick of the most branches, weighted and unweighted, was compiled
C8_Witness ==
    /\ Done /\ IsPlainPick(expr) /\ Len(expr[2][2]) = MaxPick
    /\ \E i, j \in 1..Len(expr[2][2]) :
          expr[2][2][i][1] = None /\ expr[2][2][j][1] # None

-----------------------------------------------------------------------------
(* identifiers and the frame of the stream *)

\* the term of the whole expression has just been emitted
TermJustEmitted ==
    /\ status = "running" /\ Len(work) = 4 /\ Head(work)[1] = "follow"

\* C9: an identifier naming a parameter resolves to the argument slot of the
\* highest index with that name, before the fixed names; otherwise to its
\* fixed slot, `global` to EvalKind::Global, anything else to a global
\* variable; resolving emits no instruction.
C9_IdentResolution ==
    /\ (TermJustEmitted /\ IsTopTerm("Ident")) =>
          /\ kind = Resolved(params, expr[2][2])
          /\ nodes = << <<"DbgFile">> >>
    /\ (Done /\ IsTopTerm("Ident")) =>
          nodes[2] = <<"GetVar", Resolved(params, expr[2][2])[2]>>

\* `usr` declared twice as a parameter resolved to the second slot
C9_Witness ==
    /\ TermJustEmitted /\ IsTopTerm("Ident") /\ expr[2][2] = "usr"
    /\ Len(params) = 2 /\ params[1] = "usr" /\ params[2] = "usr"
    /\ kind = <<"Var", <<"Arg", 1>>>>

\* C10: a returned stream starts with DbgFile and ends with the expression
\* result on the stack, GetVar(Arg(0)) .. GetVar(Arg(n-1)), NewList(n+1) and
\* Ret; Ret occurs nowhere else.
C10_StreamFrame ==
    Done =>
        LET n == Len(params)
            L == Len(nodes)
        IN  /\ L >= n + 4
            /\ nodes[1] = <<"DbgFile">>
            /\ kind = Stack
            /\ \A i \in 0..(n - 1) :
                  nodes[L - 1 - n + i] = <<"GetVar", <<"Arg", i>>>>
            /\ nodes[L - 1] = <<"NewList", n + 1>>
            /\ nodes[L] = <<"Ret">>
            /\ \A j \in 1..L : nodes[j] = <<"Ret">> => j = L
            /\ \A j \in 1..L : nodes[j] = <<"DbgFile">> => j = 1

\* a method call compiled under two declared parameters
C10_Witness ==
    /\ Done /\ Len(params) = 2 /\ expr = CallA
    /\ nodes[Len(nodes) - 1] = <<"NewList", 3>>

-----------------------------------------------------------------------------
(* chains of plain field accesses *)

IsPlainField(f) == f[1] = "FollowField" /\ ~IsSafe(f[2])

\* a base followed by one or more plain field accesses and nothing else
IsPlainChain(e) ==
    /\ e[1] = "Base" /\ e[3] # <<>>
    /\ \A i \in 1..Len(e[3]) : IsPlainField(e[3][i])
    /\ e[2] \in PlainBases

\* the field names of a chain, whichever way each access is spelled
FieldNames(e) == [i \in 1..Len(e[3]) |-> e[3][i][3]]

\* the nodes that bring the base of a plain chain to where the chain is
\* read off it: nothing for a variable or `global`, the value and
\* SetVar(Cache) for a value on the stack, ListGet before that for a list
\* entry
BaseStream(e) ==
    CASE e[2][1] = "Ident" -> <<>>
      [] e[2] = <<"Expr", IntE(1)>> ->
            << <<"PushInt", 1>>, <<"SetVar", Cache>> >>
      [] e[2] = <<"Expr", ListEntry>> ->
            << AtomPush(Id("a")), <<"PushInt", 1>>, <<"ListGet">>,
               <<"SetVar", Cache>> >>

\* the nodes of the base alone, before any commit
BaseOnly(e) ==
    IF BaseStream(e) = <<>> THEN <<>>
    ELSE SubSeq(BaseStream(e), 1,
                Len(BaseStream(e)) - (IF e[2] = <<"Expr", ListEntry>> THEN 2 ELSE 1))

\* the one operand the whole chain is read with
ChainOperand(e) ==
    LET names == FieldNames(e)
        r     == IF e[2][1] = "Ident" THEN Resolved(params, e[2][2]) ELSE Stack
    IN  CASE r[1] = "Var"    -> <<"Chain", r[2], names>>
          [] r[1] = "Stack"  -> <<"Chain", Cache, names>>
          [] r[1] = "Global" ->
                IF Len(names) = 1 THEN <<"GlobalVar", names[1]>>
                ELSE <<"Chain", <<"GlobalVar", names[1]>>, Tail(names)>>

IsGetVar(node) == node[1] = "GetVar"

\* the accesses of the whole expression are being processed
BufferingTop == Running("follow") /\ Len(work) = 4

\* C11: for a base followed by k >= 1 plain field accesses, nothing is
\* emitted while the names are buffered, and the returned stream is the
\* base's nodes followed by exactly one GetVar that reads the whole chain;
\* the operand depends on the field names alone, so `.` and `:` compile to
\* the same stream.
C11_PlainChainOneRead ==
    IsPlainChain(expr) =>
        /\ BufferingTop =>
              /\ nodes = << <<"DbgFile">> >> \o BaseOnly(expr)
              /\ FieldBuffer = SubSeq(FieldNames(expr), 1, Len(FieldBuffer))
        /\ Done =>
              LET L    == Len(nodes)
                  body == SubSeq(nodes, 2, L - 2 - Len(params))
              IN  /\ body = BaseStream(expr)
                              \o << <<"GetVar", ChainOperand(expr)>> >>
                  /\ Cardinality({i \in 1..Len(body) : IsGetVar(body[i])})
                        = 1 + Cardinality({i \in 1..Len(BaseStream(expr)) :
                                              IsGetVar(BaseStream(expr)[i])})

\* a:c.d:c compiled to the single read of a.c.d.c
C11_Witness ==
    /\ Done
    /\ expr = Base(<<"Ident", "a">>,
                   <<Field("Colon", "c"), Field("Dot", "d"), Field("Colon", "c")>>)
    /\ nodes[2] = <<"GetVar", <<"Chain", <<"Arg", 0>>, <<"c", "d", "c">>>>>>
    /\ Len(nodes) = 5

-----------------------------------------------------------------------------
(* the scopes of emit_expr *)

\* the nodes a step appended
Emitted == SubSeq(nodes', Len(nodes) + 1, Len(nodes'))

Appends == Len(nodes') >= Len(nodes) /\ SubSeq(nodes', 1, Len(nodes)) = nodes

\* the labels referred to by the nodes emitted so far
Referenced == UNION {Refs(nodes[i]) : i \in 1..Len(nodes)}

\* emit_expr's entry: a fresh label is allocated and pushed unused, nothing
\* is emitted
ScopePushed ==
    /\ short_circuit_labels' =
          Append(short_circuit_labels, <<label_count, FALSE>>)
    /\ label_count' = label_count + 1
    /\ \A i \in 1..Len(short_circuit_labels) :
          short_circuit_labels[i][1] < label_count
    /\ nodes' = nodes

\* emit_expr's exit: the top entry is popped; unused, nothing is emitted,
\* the label occurs nowhere and the EvalKind is handed on unchanged; used,
\* the result is on the stack, then the label is placed, and Stack returned
ScopePopped ==
    LET n     == Len(short_circuit_labels)
        entry == short_circuit_labels[n]
    IN  /\ n > 0
        /\ short_circuit_labels' = SubSeq(short_circuit_labels, 1, n - 1)
        /\ status' = "running" =>
              IF entry[2]
              THEN /\ Appends /\ Emitted # <<>>
                   /\ Emitted[Len(Emitted)] = <<"Label", entry[1]>>
                   /\ \A i \in 1..(Len(Emitted) - 1) : ~IsLabel(Emitted[i])
                   /\ Len(Emitted) = 1 <=> kind = Stack
                   /\ kind' = Stack
              ELSE /\ nodes' = nodes /\ kind' = kind
                   /\ Placed(entry[1]) = 0
                   /\ entry[1] \notin Referenced

\* short_circuit(): only the top entry changes, it becomes used, and the
\* label handed to the jump is the top entry's
ScopeMarked ==
    LET n == Len(short_circuit_labels)
    IN  /\ n > 0
        /\ Len(short_circuit_labels') = n
        /\ \A i \in 1..(n - 1) :
              short_circuit_labels'[i] = short_circuit_labels[i]
        /\ short_circuit_labels'[n] = <<short_circuit_labels[n][1], TRUE>>
        /\ nodes' = nodes
        /\ \E i \in 1..Len(work') :
              /\ work'[i][1] = "binary_jump"
              /\ work'[i][3] = short_circuit_labels[n][1]
              /\ \A j \in 1..(i - 1) : work'[j][1] # "binary_jump"

\* every pending or emitted short-circuit jump targets a scope that is still
\* open and marked used, or a label already placed
JumpsInScope ==
    LET open == {short_circuit_labels[i][1] :
                    i \in {j \in 1..Len(short_circuit_labels) :
                              short_circuit_labels[j][2]}}
    IN  /\ \A i \in 1..Len(work) :
              work[i][1] = "binary_jump" => work[i][3] \in open
        /\ \A i \in 1..Len(nodes) :
              nodes[i][1] \in {"JmpAnd", "JmpOr"} =>
                  \/ nodes[i][2] \in open /\ Placed(nodes[i][2]) = 0
                  \/ \E j \in (i + 1)..Len(nodes) :
                        nodes[j] = <<"Label", nodes[i][2]>>

\* C12: emit_expr pushes one fresh unused label before the inner
\* expression; at its end an unused label is dropped without a node and the
\* inner EvalKind is returned unchanged, a used one is placed after the
\* result was brought to the stack and Stack is returned; short_circuit()
\* returns the label of the top entry and marks that entry alone; the stack
\* changes in no other way.
C12_ScopeLabels ==
    [][/\ EmitExpr => ScopePushed
       /\ EmitExprEnd => ScopePopped
       /\ BinaryOpShortCircuit => ScopeMarked
       /\ (short_circuit_labels' # short_circuit_labels) =>
             (ScopePushed \/ ScopePopped \/ ScopeMarked)
       /\ JumpsInScope']_vars

\* a.f(1) && a: the outer scope was used and its label placed last, the
\* scopes of the operands and of the argument were dropped
C12_Witness ==
    /\ Done /\ expr = And(CallA, Id("a"))
    /\ label_count = 4
    /\ nodes[Len(nodes) - 3] = <<"Label", 0>>
    /\ \E i \in 1..Len(nodes) : nodes[i] = <<"JmpAnd", 0>>
    /\ \A n \in 1..3 : Placed(n) = 0

-----------------------------------------------------------------------------
(* emit_move_to_stack and emit_move_to_chain_builder on their own: every   *)
(* EvalKind is handed to each of them once.  The frame                     *)
(* <<fn, input>> becomes <<"materialized", fn, input>> when the call       *)
(* returned Ok, with the returned value in `kind`.                         *)

Variables ==
    {<<"Arg", 0>>, <<"Arg", 1>>, <<"Dot">>, <<"Usr">>, <<"Src">>, <<"Args">>,
     <<"World">>, <<"GlobalVar", "a">>, Cache}

Builders ==
    {AppendAll(ChainBegin(v), hops) :
        v \in Variables, hops \in SeqsUpTo({"b", "c"}, MaxHops)}

EvalKinds ==
    {Stack, <<"ListRef">>, <<"Range">>, <<"Global">>}
    \cup {<<"Var", v>> : v \in Variables}
    \cup {<<t, b, n>> : t \in {"Field", "SafeField"}, b \in Builders,
                        n \in {"b", "d"}}

\* emit_move_to_chain_builder has no arm for SafeField
MaterializeInputs ==
    {<<"to_stack", k>> : k \in EvalKinds}
    \cup {<<"to_chain", k>> : k \in {x \in EvalKinds : x[1] # "SafeField"}}

MaterializeInit ==
    /\ params = <<"a", "b">>
    /\ expr = Id("a")
    /\ nodes = << <<"DbgFile">> >>
    /\ label_count = 0
    /\ short_circuit_labels = <<>>
    /\ \E input \in MaterializeInputs :
          kind = input[2] /\ work = <<input>>
    /\ status = "running"
    /\ error = NoError
    /\ vpc = 0
    /\ vcache = <<"Unset">>
    /\ vsave = <<>>
    /\ vtrace = <<>>

MaterializeToStack ==
    /\ Running("to_stack")
    /\ LET c == EmitMoveToStack(Cur, Top[2])
       IN  Commit(c, c.ret, << <<"materialized", "to_stack", Top[2]>> >>,
                  short_circuit_labels)

MaterializeToChain ==
    /\ Running("to_chain")
    /\ LET c == EmitMoveToChainBuilder(Cur, Top[2])
       IN  Commit(c, c.ret, << <<"materialized", "to_chain", Top[2]>> >>,
                  short_circuit_labels)

MaterializeNext == MaterializeToStack \/ MaterializeToChain

MaterializeSpec == MaterializeInit /\ [][MaterializeNext]_vars

\* fn returned Ok for the EvalKind k
Materialized(fn, k) ==
    status = "running" /\ work = << <<"materialized", fn, k>> >>

\* what the call emitted
Body == SubSeq(nodes, 2, Len(nodes))

\* the operand that reads `field` off the value the builder stands for
FinalRead(builder, field) ==
    <<"GetVar", <<"Chain", builder[2], builder[3] \o <<field>>>>>>

\* what the claim says to-stack emits for the EvalKind k
ToStackNodes(k) ==
    CASE k[1] = "Stack"   -> <<>>
      [] k[1] = "ListRef" -> << <<"ListGet">> >>
      [] k[1] = "Var"     -> << <<"GetVar", k[2]>> >>
      [] k[1] \in {"Field", "SafeField"} -> << FinalRead(k[2], k[3]) >>

\* what the claim says to-chain emits for the EvalKind k
ToChainNodes(k) ==
    CASE k[1] = "Stack"   -> << <<"SetVar", Cache>> >>
      [] k[1] = "ListRef" -> << <<"ListGet">>, <<"SetVar", Cache>> >>
      [] k[1] \in {"Var", "Field"} -> <<>>

\* the chain the claim says to-chain returns for the EvalKind k
ToChainBuilder(k) ==
    CASE k[1] \in {"Stack", "ListRef"} -> <<"ChainBuilder", Cache, <<>>>>
      [] k[1] = "Var"   -> <<"ChainBuilder", k[2], <<>>>>
      [] k[1] = "Field" -> <<"ChainBuilder", k[2][2], k[2][3] \o <<k[3]>>>>

-----------------------------------------------------------------------------
(* names read and procs called off `global` *)

\* what the claim says committing the names ns off Global yields
GlobalCommitted(ns) ==
    IF Len(ns) = 1 THEN <<"Var", <<"GlobalVar", ns[1]>>>>
    ELSE <<"Field",
           <<"ChainBuilder", <<"GlobalVar", ns[1]>>, SubSeq(ns, 2, Len(ns) - 1)>>,
           ns[Len(ns)]>>

\* the operand the committed names are read with
GlobalRead(ns) ==
    IF Len(ns) = 1 THEN <<"GlobalVar", ns[1]>>
    ELSE <<"Chain", <<"GlobalVar", ns[1]>>, Tail(ns)>>

\* `global`, plain field accesses, then one plain call
IsGlobalThenCall(e) ==
    /\ e[1] = "Base" /\ e[2] = <<"Ident", "global">> /\ e[3] # <<>>
    /\ \A i \in 1..(Len(e[3]) - 1) : IsPlainField(e[3][i])
    /\ LET f == e[3][Len(e[3])]
       IN  /\ f[1] = "FollowCall" /\ ~IsSafe(f[2])
           /\ Range(f[4]) \subseteq Atoms

\* follow::emit of the whole expression has just returned
FollowReturned ==
    status = "running" /\ Len(work) = 3 /\ Head(work)[1] = "emit_expr_end"

IsCallGlob(node) == node[1] = "CallGlob"

\* C14: committing the buffered names n1..nk off Global emits nothing and
\* yields Var(Global(n1)) for k = 1 and otherwise the chain rooted at
\* Global(n1) with hops n2..n(k-1) and nk pending, the buffer being empty
\* afterwards; a call off Global is a CallGlob of /proc/<ident> when no name
\* is buffered, and otherwise an ordinary method call on the committed
\* global-variable chain.
C14_GlobalCommit ==
    /\ (IsPlainChain(expr) /\ expr[2] = <<"Ident", "global">>
          /\ "global" \notin Range(params)) =>
          /\ BufferingTop =>
                kind = <<"Global">> /\ nodes = << <<"DbgFile">> >>
          /\ FollowReturned =>
                /\ kind = GlobalCommitted(FieldNames(expr))
                /\ nodes = << <<"DbgFile">> >>
    /\ (IsGlobalThenCall(expr) /\ "global" \notin Range(params)) =>
          LET k     == Len(expr[3])
              f     == expr[3][k]
              ns    == [i \in 1..(k - 1) |-> expr[3][i][3]]
              pushes == [i \in 1..Len(f[4]) |-> AtomPush(f[4][i])]
          IN  /\ (BufferingTop /\ Follows = <<>>) => FieldBuffer = <<>>
              /\ Done =>
                    LET body == SubSeq(nodes, 2, Len(nodes) - 2 - Len(params))
                    IN  IF ns = <<>>
                        THEN body = pushes
                                \o << <<"CallGlob", Len(f[4]),
                                        <<"/proc/", f[3]>>>> >>
                        ELSE body = << <<"GetVar", GlobalRead(ns)>>,
                                       <<"SetVar", Cache>>, <<"PushCache">> >>
                                \o pushes
                                \o << <<"PopCache">>,
                                      <<"Call", <<"DynamicProc", f[3]>>,
                                        Len(f[4])>> >>

\* global.c:d.f(a) compiled as a method call on the global variable c's
\* field d, with no CallGlob
C14_Witness ==
    /\ Done
    /\ expr = Base(<<"Ident", "global">>,
                   <<Field("Dot", "c"), Field("Colon", "d"),
                     Call("Dot", "f", <<Id("a")>>)>>)
    /\ nodes[2] = <<"GetVar", <<"Chain", <<"GlobalVar", "c">>, <<"d">>>>>>
    /\ nodes[7] = <<"Call", <<"DynamicProc", "f">>, 1>>
    /\ \A i \in 1..Len(nodes) : ~IsCallGlob(nodes[i])

-----------------------------------------------------------------------------
(* the discipline of short_circuit_labels *)

\* the emit_expr calls that have not returned yet: each has its exit pending
\* in the continuation
OpenScopes == Cardinality({i \in 1..Len(work) : work[i][1] = "emit_expr_end"})

\* the segments that run outside every emit_expr call
OuterTags == {"emit_expr", "emit_move_to_stack", "finish"}

\* a segment of term::emit, follow::emit or an operator emitter is next
InnerRuns ==
    status = "running" /\ work # <<>> /\ Head(work)[1] \notin OuterTags

\* one entry per open emit_expr call, with distinct labels in allocation
\* order; none when compile_expr returned Ok; one at least where inner
\* emission runs
ScopeDepth ==
    /\ status = "running" =>
          /\ Len(short_circuit_labels) = OpenScopes
          /\ \A i, j \in 1..Len(short_circuit_labels) :
                i < j => short_circuit_labels[i][1] < short_circuit_labels[j][1]
    /\ Done => short_circuit_labels = <<>>
    /\ InnerRuns => short_circuit_labels # <<>>

\* a step pushes or pops one entry at most and never changes the label of
\* an entry that stays
LowerEntriesKept ==
    LET n == Len(short_circuit_labels)
        m == Len(short_circuit_labels')
    IN  /\ m \in {n - 1, n, n + 1}
        /\ \A i \in 1..(IF m < n THEN m ELSE n) :
              short_circuit_labels'[i][1] = short_circuit_labels[i][1]

\* C15: the depth of short_circuit_labels is the number of emit_expr calls
\* in progress, so a call that returns leaves the depth it found, and no
\* step changes the label of an entry below the top, so it leaves the lower
\* entries' labels too; the stack is empty when compile_expr returns Ok and
\* non-empty wherever term, follow or operator emission runs.
C15_ScopeStack == []ScopeDepth /\ [][LowerEntriesKept]_vars

\* three emit_expr calls in progress, the outermost already marked used,
\* the innermost about to return
C15_Witness ==
    /\ Running("emit_expr_end")
    /\ Len(short_circuit_labels) = 3 /\ OpenScopes = 3
    /\ short_circuit_labels[1][2] /\ ~short_circuit_labels[3][2]

====
